---- MODULE Spec2Model ----
(***************************************************************************)
(* A model of the codesearch command line tools: the index builder         *)
(* (cindex: argument handling, the directory walker, the walker/consumer   *)
(* hand-off, flush, merge and the final rename) and the searcher (csearch: *)
(* usage handling, pattern compilation, the candidate loop, exit status).  *)
(*                                                                         *)
(* Paths are sequences of name components; a component is a small natural  *)
(* number standing for a one-letter name, so that the component-wise       *)
(* lexical order is the byte order sort.Strings and filepath.Walk use.     *)
(* The empty sequence stands for the empty string "" that main stores for  *)
(* an argument filepath.Abs could not translate.                           *)
(***************************************************************************)
EXTENDS Naturals, Integers, Sequences, FiniteSets, TLC

VARIABLES
    rev,        \* 1: the earlier cindex main (lines 398-501), 2: the later one (718-877)
    listFlag,   \* *listFlag
    resetFlag,  \* *resetFlag
    noFollow,   \* *noFollowSymlinksFlag (rev 2), !*followSymlinksFlag (rev 1)
    args,       \* args, as main holds them
    initMaster, \* what the live index path held when the run started
    disk,       \* the three index paths: master, master~, master~~
    pc,         \* main's position
    ixfile,     \* file: the path the writer was created on
    ix,         \* the index writer's in-memory state
    argIdx,     \* the next root of "for _, arg := range args"
    queue,      \* the paths walk(arg) still has to send on walkChan
    cpc,        \* the consumer goroutine's position
    cur,        \* the path the consumer received and has not yet handled
    seen,       \* the consumer's seen map
    sent,       \* history: every path sent on walkChan, in order
    walked,     \* history: the roots walk was called on, in order
    log,        \* history: the writer and file-system calls, in order
    out,        \* what cindex -list printed
    exit,       \* the process's exit status (Running while it runs)
    spc,        \* csearch: Main's position
    sin,        \* csearch: the command line and the pattern
    post,       \* csearch: the candidate file ids, as the loop ranges over them
    fi,         \* csearch: how many candidates the loop has taken
    g,          \* csearch: the grep driver's state
    fileCalls,  \* csearch history: the g.File calls, in order
    cmd,        \* cindex: the command line of the first run, and how the
                \* current run was started
    run,        \* cindex: which run over the corpus this is
    wk,         \* the walker taken alone: its call stack and what it sent
    mm          \* mmapFile taken alone: platform, file size and outcome

bvars == <<rev, listFlag, resetFlag, noFollow, args, initMaster, disk, pc,
           ixfile, ix, argIdx, queue, cpc, cur, seen, sent, walked, log, out,
           cmd, run>>
svars == <<spc, sin, post, fi, g, fileCalls>>
ovars == <<wk, mm>>
vars == <<bvars, svars, exit, ovars>>

\* ------------------------------------------------------------ bounds

\* The longest command line of root arguments.
MaxArgs == 2
\* filepath.EvalSymlinks gives up on a path after this many path elements
\* and link expansions (maxIter, 255 in the Go library).
MaxIter == 5
\* How many times the builder is run over the corpus.
MaxRuns == 2
\* The largest -m value and the largest number of matching lines in a file.
MaxCount == 2

\* exit while the process runs.
Running == 0 - 1

\* ------------------------------------------------------------ helpers

Front(s) == SubSeq(s, 1, Len(s) - 1)
Last(s) == s[Len(s)]
Range(s) == {s[i] : i \in 1..Len(s)}

RECURSIVE LexLess(_, _)
\* p < q as strings: component-wise lexical order, a proper prefix first.
LexLess(p, q) ==
    IF q = <<>> THEN FALSE
    ELSE IF p = <<>> THEN TRUE
    ELSE IF Head(p) # Head(q) THEN Head(p) < Head(q)
    ELSE LexLess(Tail(p), Tail(q))

LexLeq(p, q) == p = q \/ LexLess(p, q)

IsSorted(s) == \A i \in 1..(Len(s) - 1) : LexLeq(s[i], s[i + 1])

RECURSIVE Insert(_, _)
Insert(s, p) ==
    IF s = <<>> THEN <<p>>
    ELSE IF LexLeq(p, Head(s)) THEN <<p>> \o s
    ELSE <<Head(s)>> \o Insert(Tail(s), p)

\* The mutant of SortStrings: the sort left out.
SortStringsUnsorted(s) == s

RECURSIVE SortStrings(_)
\* sort.Strings(args)
SortStrings(s) ==
    IF s = <<>> THEN <<>> ELSE Insert(SortStrings(Tail(s)), Head(s))

RECURSIVE SetToSortedSeq(_)
\* The paths of a set in ascending order.
SetToSortedSeq(S) ==
    IF S = {} THEN <<>>
    ELSE LET m == CHOOSE x \in S : \A y \in S : LexLeq(x, y)
         IN <<m>> \o SetToSortedSeq(S \ {m})

RECURSIVE Dedup(_)
\* s with every repeated occurrence after the first removed.
Dedup(s) ==
    IF s = <<>> THEN <<>>
    ELSE LET d == Dedup(Front(s))
         IN IF Last(s) \in Range(d) THEN d ELSE Append(d, Last(s))

IsPrefix(r, p) == Len(r) <= Len(p) /\ SubSeq(p, 1, Len(r)) = r

\* ------------------------------------------------------------ the source tree

\* Trigrams the model's files hold.
Trigrams == {"hel", "elp"}

Node(kind, target, text, trig, excl) ==
    [kind |-> kind, target |-> target, text |-> text, trig |-> trig, excl |-> excl]

\*   <<1>>       /a            directory
\*   <<1,1>>     /a/b          directory
\*   <<1,1,1>>   /a/b/g        text file
\*   <<1,2>>     /a/f          text file
\*   <<1,3>>     /a/l          symlink to the directory /a/b
\*   <<2>>       /c            directory
\*   <<2,1>>     /c/.csearchindex   a file the exclude patterns match
\*   <<2,2>>     /c/h          a binary file (AddFile skips it)
\*   <<2,3>>     /c/k          symlink to the file /a/f
\*   <<2,4>>     /c/m          symlink whose target does not exist
\*   <<2,5>>     /c/s          a socket (neither regular nor a directory)
\*   <<4>>       /d            directory
\*   <<4,1>>     /d/e          text file
\*   <<4,2>>     /d/u          symlink to its own parent directory /d
Tree ==
    (<<1>>       :> Node("dir", <<>>, FALSE, {}, FALSE)) @@
    (<<1, 1>>    :> Node("dir", <<>>, FALSE, {}, FALSE)) @@
    (<<1, 1, 1>> :> Node("file", <<>>, TRUE, {"hel"}, FALSE)) @@
    (<<1, 2>>    :> Node("file", <<>>, TRUE, {"hel", "elp"}, FALSE)) @@
    (<<1, 3>>    :> Node("link", <<1, 1>>, FALSE, {}, FALSE)) @@
    (<<2>>       :> Node("dir", <<>>, FALSE, {}, FALSE)) @@
    (<<2, 1>>    :> Node("file", <<>>, TRUE, {"elp"}, TRUE)) @@
    (<<2, 2>>    :> Node("file", <<>>, FALSE, {}, FALSE)) @@
    (<<2, 3>>    :> Node("link", <<1, 2>>, FALSE, {}, FALSE)) @@
    (<<2, 4>>    :> Node("link", <<3, 1>>, FALSE, {}, FALSE)) @@
    (<<2, 5>>    :> Node("other", <<>>, FALSE, {}, FALSE)) @@
    (<<4>>       :> Node("dir", <<>>, FALSE, {}, FALSE)) @@
    (<<4, 1>>    :> Node("file", <<>>, TRUE, {"elp"}, FALSE)) @@
    (<<4, 2>>    :> Node("link", <<4>>, FALSE, {}, FALSE))

Names == UNION {Range(p) : p \in DOMAIN Tree}

Exists(p) == p \in DOMAIN Tree

\* The path EvalSymlinks could not resolve.
NoPath == <<0>>

RECURSIVE walkSymlinks(_, _, _, _)
\* The loop of filepath.EvalSymlinks: rest is the part of the path still to
\* consume, b the resolved prefix, n the iterations so far.  Each iteration
\* takes the front element of rest; a symlink puts its (absolute) target in
\* front of what is left and starts b afresh.
walkSymlinks(rest, b, n, maxIter) ==
    IF rest = <<>> THEN b
    ELSE IF n > maxIter THEN NoPath
    ELSE LET q == Append(b, Head(rest))
         IN IF ~Exists(q) THEN NoPath
            ELSE IF Tree[q].kind # "link"
              THEN walkSymlinks(Tail(rest), q, n + 1, maxIter)
            ELSE walkSymlinks(Tree[q].target \o Tail(rest), <<>>, n + 1, maxIter)

\* The mutant of EvalSymlinks: a resolver whose limit is never reached.
EvalSymlinksUnlimited(p, maxIter) == walkSymlinks(p, <<>>, 0, 1000 * maxIter)

\* filepath.EvalSymlinks: the path with every symlink on it followed, NoPath
\* when a component does not exist or the iteration limit is passed.
EvalSymlinks(p, maxIter) == walkSymlinks(p, <<>>, 0, maxIter)

\* The file a path names, symlinks followed (what os.Open reads).
FileAt(p) == EvalSymlinks(p, MaxIter)

\* readDirNames: the entries of a directory in ascending order.
ReadDirNames(p) ==
    SetToSortedSeq({<<n>> : n \in {m \in Names : Exists(Append(p, m))}})

\* path[len(arg):]
Rel(path, arg) == SubSeq(path, Len(arg) + 1, Len(path))

\* The name walk reports for path: path itself, or the symlink's name in
\* place of the resolved root.
Shown(path, arg, symlinkFrom) ==
    IF symlinkFrom = <<>> THEN path ELSE symlinkFrom \o Rel(path, arg)

RECURSIVE walk(_, _, _)
RECURSIVE WalkPath(_, _, _, _)
RECURSIVE WalkEntries(_, _, _, _, _)

\* The walk function handed to filepath.Walk, for a path that exists:
\* what it sends and whether it returned filepath.SkipDir.
WalkFn(path, arg, symlinkFrom, nofollow) ==
    LET info == Tree[path]
    IN IF path # <<>> /\ info.kind = "dir" /\ info.excl
         THEN [out |-> <<>>, skip |-> TRUE]
       ELSE IF path # <<>> /\ info.kind # "dir" /\ info.excl
         THEN [out |-> <<>>, skip |-> FALSE]
       ELSE IF path # <<>> /\ info.kind = "link"
         THEN IF nofollow THEN [out |-> <<>>, skip |-> FALSE]
              ELSE LET symlinkAs == Shown(path, arg, symlinkFrom)
                       p == EvalSymlinks(symlinkAs, MaxIter)
                   IN IF p = NoPath
                        THEN [out |-> <<>>, skip |-> FALSE]
                        ELSE [out |-> walk(p, symlinkAs, nofollow),
                              skip |-> FALSE]
       ELSE IF info.kind = "file"
         THEN [out |-> <<Shown(path, arg, symlinkFrom)>>, skip |-> FALSE]
       ELSE [out |-> <<>>, skip |-> FALSE]

\* filepath.Walk's own recursion: the walk function on path, then on the
\* entries of a directory in lexical order.
WalkPath(path, arg, symlinkFrom, nofollow) ==
    LET r == WalkFn(path, arg, symlinkFrom, nofollow)
    IN IF r.skip \/ Tree[path].kind # "dir" THEN r.out
       ELSE r.out \o WalkEntries(path, ReadDirNames(path), arg, symlinkFrom,
                                 nofollow)

WalkEntries(dir, names, arg, symlinkFrom, nofollow) ==
    IF names = <<>> THEN <<>>
    ELSE WalkPath(dir \o Head(names), arg, symlinkFrom, nofollow)
         \o WalkEntries(dir, Tail(names), arg, symlinkFrom, nofollow)

\* walk(arg, symlinkFrom, out, logskip): the paths it sends on out, in order.
\* A root that cannot be stat'ed is logged and sends nothing.
walk(arg, symlinkFrom, nofollow) ==
    IF ~Exists(arg) THEN <<>>
    ELSE WalkPath(arg, arg, symlinkFrom, nofollow)

\* ------------------------------------------------------------ the index

Master == "index"
Files == {"index", "index~", "index~~"}
\* name + "~"
Tilde(f) == IF f = "index" THEN "index~" ELSE "index~~"

NoPosting == [t \in Trigrams |-> <<>>]
FileState(state, paths, names, postings) ==
    [state |-> state, paths |-> paths, names |-> names, post |-> postings]
NoFile == FileState("absent", <<>>, <<>>, NoPosting)
\* A file that was created or truncated and holds no trailer yet.
Partial == FileState("partial", <<>>, <<>>, NoPosting)
\* A directory where the index file should be.
DirEntry == FileState("dir", <<>>, <<>>, NoPosting)
IsIndex(f) == f.state = "index"

RECURSIVE SortedIds(_)
\* The file ids of a set in ascending order.
SortedIds(S) ==
    IF S = {} THEN <<>>
    ELSE LET m == CHOOSE x \in S : \A y \in S : x <= y
         IN <<m>> \o SortedIds(S \ {m})

\* index.Create(file): a writer with nothing added.
NoWriter == [paths |-> <<>>, names |-> <<>>, pairs |-> {}]

\* ix.AddPaths(paths)
AddPaths(w, paths) == [w EXCEPT !.paths = w.paths \o paths]

\* ix.AddFile(name): a file that cannot be read or is not text is skipped;
\* any other gets the next file id, and its trigrams are posted under it.
AddFile(w, name) ==
    LET f == FileAt(name)
    IN IF f = NoPath \/ f = <<>> THEN w
       ELSE IF Tree[f].kind # "file" \/ ~Tree[f].text THEN w
       ELSE [w EXCEPT !.names = Append(w.names, name),
                      !.pairs = w.pairs \cup {<<t, Len(w.names)>> : t \in Tree[f].trig}]

\* ix.Flush(): the finalized file, every posting list ascending.
Flush(w) ==
    FileState("index", w.paths, w.names,
              [t \in Trigrams |-> SortedIds({id \in 0..(Len(w.names) - 1) : <<t, id>> \in w.pairs})])

\* Whether a file name lies under one of the roots.
Under(name, roots) == \E r \in roots : IsPrefix(r, name)

RECURSIVE Keep(_, _)
\* The entries of names not under the roots, in order.
Keep(names, roots) ==
    IF names = <<>> THEN <<>>
    ELSE IF Under(Head(names), roots) THEN Keep(Tail(names), roots)
    ELSE <<Head(names)>> \o Keep(Tail(names), roots)

\* index.Merge(dst, src1, src2): a and b merged, b preferred for the roots it
\* claims; file ids renumbered, a's surviving files first.
Merge(a, b) ==
    LET drop == Range(b.paths)
        kept == Keep(a.names, drop)
        mapA(i) == Len(Keep(SubSeq(a.names, 1, i + 1), drop)) - 1
        survives(i) == ~Under(a.names[i + 1], drop)
    IN FileState("index",
                 SetToSortedSeq(Range(a.paths) \cup Range(b.paths)),
                 kept \o b.names,
                 [t \in Trigrams |->
                    SortedIds({mapA(i) : i \in {j \in Range(a.post[t]) : survives(j)}}
                              \cup {Len(kept) + j : j \in Range(b.post[t])})])

RECURSIVE AddFiles(_, _)
AddFiles(w, names) ==
    IF names = <<>> THEN w ELSE AddFile(AddFiles(w, Front(names)), Last(names))

RECURSIVE WalkAll(_)
WalkAll(roots) ==
    IF roots = <<>> THEN <<>>
    ELSE walk(Head(roots), <<>>, FALSE) \o WalkAll(Tail(roots))

\* The index an earlier "cindex -reset roots" of this tree left.
IndexOf(roots) == Flush(AddFiles(AddPaths(NoWriter, roots), Dedup(WalkAll(roots))))

\* An index of /a built when /a/z existed and /a/l did not.
StaleIndex ==
    FileState("index", <<<<1>>>>, <<<<1, 1, 1>>, <<1, 2>>, <<1, 4>>>>,
              [t \in Trigrams |-> IF t = "hel" THEN <<0, 1>> ELSE <<1, 2>>])

\* What the live index path may hold before a run.
MasterChoices ==
    {NoFile, DirEntry, StaleIndex, IndexOf(<<<<2>>>>), IndexOf(<<<<1, 1>>, <<2>>>>)}

\* ------------------------------------------------------------ cindex

\* A relative path argument given when the working directory is gone.
RelArg == <<0>>
\* /a, /a/b, /c, /d, a root that does not exist, and the relative path.
ArgChoices == {<<1>>, <<1, 1>>, <<2>>, <<4>>, <<3>>, RelArg}

RECURSIVE SeqsUpTo(_, _)
SeqsUpTo(S, n) ==
    IF n = 0 THEN {<<>>}
    ELSE LET shorter == SeqsUpTo(S, n - 1)
         IN shorter \cup {Append(s, x) : s \in shorter, x \in S}

\* filepath.Abs(arg), "" when it fails.
Abs(arg) == IF arg = RelArg THEN <<>> ELSE arg

\* The roots main can hand to walk: the arguments made absolute and the
\* roots an index on disk records.
Roots == {Abs(a) : a \in ArgChoices} \cup UNION {Range(m.paths) : m \in MasterChoices}

\* walk(arg, "", walkChan, *logSkipFlag) for every root and either setting of
\* the symlink flag: what the call sends, tabulated.
WalkOut == [nofollow \in BOOLEAN |-> [arg \in Roots |-> walk(arg, <<>>, nofollow)]]

RECURSIVE StripEmpty(_)
\* for len(args) > 0 && args[0] == "" { args = args[1:] }
StripEmpty(s) ==
    IF s # <<>> /\ Head(s) = <<>> THEN StripEmpty(Tail(s)) ELSE s

\* The mutant of ScratchFile: the writer always created on the live path.
ScratchFileLive(reset) == Master

\* file := master; if !*resetFlag { file += "~" }
ScratchFile(reset) == IF reset THEN Master ELSE Tilde(Master)

\* The mutant of Unseen: the seen map not consulted.
UnseenAlways(path, seenSet) == TRUE

\* !seen[path]
Unseen(path, seenSet) == path \notin seenSet

\* The mutant of DoneReceivable: a consumer that never takes the done signal.
DoneReceivableNever == FALSE

\* The mutant of DoneReceivable: the done signal taken while the path just
\* received is still unhandled.
DoneReceivableEarly == cpc \in {"select", "got"}

\* The consumer is at its select, where "case <-doneChan" can be taken.
DoneReceivable == cpc = "select"

Logged(op, arg) == log' = Append(log, <<op, arg>>)

BInit ==
    /\ rev \in {1, 2}
    /\ listFlag \in BOOLEAN
    /\ resetFlag \in BOOLEAN
    /\ noFollow \in BOOLEAN
    /\ args \in SeqsUpTo(ArgChoices, MaxArgs)
    /\ initMaster \in MasterChoices
    /\ disk = [f \in Files |-> IF f = Master THEN initMaster ELSE NoFile]
    /\ pc = "start"
    /\ ixfile = ""
    /\ ix = NoWriter
    /\ argIdx = 1
    /\ queue = <<>>
    /\ cpc = "idle"
    /\ cur = NoPath
    /\ seen = {}
    /\ sent = <<>>
    /\ walked = <<>>
    /\ log = <<>>
    /\ out = <<>>
    /\ cmd = [args |-> args, reset |-> resetFlag, again |-> "first"]
    /\ run = 1
    /\ exit = Running

\* A pattern: whether it compiles, the trigrams its query requires (none:
\* the query is ALL), and how many lines match in a file that holds them.
Pattern(ok, trig, lines) == [ok |-> ok, trig |-> trig, lines |-> lines]
Command(nargs, badFlag, pat, fre, brute, m) ==
    [nargs |-> nargs, badFlag |-> badFlag, pat |-> pat, fre |-> fre,
     brute |-> brute, m |-> m]
NoCommand == Command(0, FALSE, Pattern(FALSE, {}, 0), "none", FALSE, 0)

\* regexp.Grep before g.Limit: no cap, nothing matched.
NoGrep == [limit |-> 0, limited |-> FALSE, Done |-> FALSE, Match |-> FALSE]

\* The walker and mmapFile when they are not looked at alone.
NoWalk == [root |-> NoPath, stack |-> <<>>, sent |-> <<>>]
NoMmap == [os |-> "none", bits |-> 0, size |-> 0, at |-> "idle", len |-> 0,
           mapped |-> 0]
OIdle == wk = NoWalk /\ mm = NoMmap

SIdle ==
    /\ spc = "idle"
    /\ sin = NoCommand
    /\ post = <<>>
    /\ fi = 0
    /\ g = NoGrep
    /\ fileCalls = <<>>

Init == BInit /\ SIdle /\ OIdle

BKeep == UNCHANGED <<rev, listFlag, noFollow, initMaster, out, cmd, run, svars,
                     ovars>>
Stop(status) == exit' = status

\* cindex -list: the roots of the index are printed and main returns.  The
\* later main first refuses an index path that is missing or no regular
\* file; index.Open is fatal on a file that is no index.
ListIndex ==
    /\ pc = "start" /\ listFlag
    /\ IF IsIndex(disk[Master])
         THEN out' = disk[Master].paths /\ pc' = "done" /\ Stop(0)
         ELSE UNCHANGED out /\ pc' = "fatal" /\ Stop(1)
    /\ UNCHANGED <<rev, listFlag, resetFlag, noFollow, args, initMaster, disk,
                   ixfile, ix, argIdx, queue, cpc, cur, seen, sent, walked, log,
                   cmd, run, svars, ovars>>

\* cindex -reset with no path: the index is removed and main returns; the
\* later main refuses an index path that is not a regular file.
ResetIndex ==
    /\ pc = "start" /\ ~listFlag /\ resetFlag /\ args = <<>>
    /\ IF rev = 2 /\ disk[Master].state = "absent"
         THEN pc' = "done" /\ Stop(0) /\ UNCHANGED <<disk, log>>
       ELSE IF rev = 2 /\ disk[Master].state = "dir"
         THEN pc' = "fatal" /\ Stop(1) /\ UNCHANGED <<disk, log>>
       ELSE /\ pc' = "done" /\ Stop(0)
            /\ disk' = [disk EXCEPT ![Master] =
                          IF disk[Master].state = "dir" THEN @ ELSE NoFile]
            /\ Logged("Remove", Master)
    /\ UNCHANGED <<resetFlag, args, ixfile, ix, argIdx, queue, cpc, cur, seen,
                   sent, walked>>
    /\ BKeep

\* With no path the roots come from the index; index.Open is fatal on a
\* file that is no index.
PrepareFatal ==
    /\ pc = "start" /\ ~listFlag
    /\ args = <<>> /\ ~resetFlag /\ ~IsIndex(disk[Master])
    /\ pc' = "fatal" /\ Stop(1)
    /\ UNCHANGED <<resetFlag, args, disk, ixfile, ix, argIdx, queue, cpc, cur,
                   seen, sent, walked, log>>
    /\ BKeep

\* The arguments made absolute, sorted, the failed ones dropped.
PrepareArgs ==
    /\ pc = "start" /\ ~listFlag
    /\ ~(resetFlag /\ args = <<>>)
    /\ args = <<>> => IsIndex(disk[Master])
    /\ LET given == IF args = <<>> THEN disk[Master].paths ELSE args
           abs == [i \in 1..Len(given) |-> Abs(given[i])]
       IN args' = StripEmpty(SortStrings(abs))
    /\ pc' = "stat"
    /\ UNCHANGED <<resetFlag, disk, ixfile, ix, argIdx, queue, cpc, cur, seen,
                   sent, walked, log, exit>>
    /\ BKeep

\* os.Stat(master): no index means -reset; the later main refuses a
\* directory.  Then the writer's path is chosen.
StatMaster ==
    /\ pc = "stat"
    /\ LET reset == resetFlag \/ disk[Master].state = "absent"
       IN IF rev = 2 /\ disk[Master].state = "dir"
            THEN /\ pc' = "fatal" /\ Stop(1)
                 /\ UNCHANGED <<resetFlag, ixfile>>
            ELSE /\ resetFlag' = reset
                 /\ ixfile' = ScratchFile(reset)
                 /\ pc' = "create"
                 /\ UNCHANGED exit
    /\ UNCHANGED <<args, disk, ix, argIdx, queue, cpc, cur, seen, sent, walked, log>>
    /\ BKeep

\* index.Create(file), ix.AddPaths(args), and the consumer goroutine started.
CreateIx ==
    /\ pc = "create"
    /\ IF disk[ixfile].state = "dir"
         THEN /\ pc' = "fatal" /\ Stop(1)
              /\ UNCHANGED <<disk, ix, cpc, log>>
         ELSE /\ disk' = [disk EXCEPT ![ixfile] = Partial]
              /\ ix' = AddPaths(NoWriter, args)
              /\ log' = log \o <<<<"Create", ixfile>>, <<"AddPaths", ixfile>>>>
              /\ cpc' = "select"
              /\ pc' = "walk"
              /\ UNCHANGED exit
    /\ UNCHANGED <<resetFlag, args, ixfile, argIdx, queue, cur, seen, sent, walked>>
    /\ BKeep

\* for _, arg := range args { walk(arg, "", walkChan, ...) }: the next root's
\* walk starts.
WalkRoot ==
    /\ pc = "walk" /\ queue = <<>> /\ argIdx <= Len(args)
    /\ queue' = WalkOut[noFollow][args[argIdx]]
    /\ walked' = Append(walked, args[argIdx])
    /\ argIdx' = argIdx + 1
    /\ UNCHANGED <<resetFlag, args, disk, pc, ixfile, ix, cpc, cur, seen, sent,
                   log, exit>>
    /\ BKeep

\* out <- path meets case path := <-walkChan: the channel is unbuffered.
SendPath ==
    /\ pc = "walk" /\ queue # <<>> /\ cpc = "select"
    /\ cur' = Head(queue)
    /\ queue' = Tail(queue)
    /\ sent' = Append(sent, Head(queue))
    /\ cpc' = "got"
    /\ UNCHANGED <<resetFlag, args, disk, pc, ixfile, ix, argIdx, seen, walked,
                   log, exit>>
    /\ BKeep

\* if !seen[path] { seen[path] = true; ix.AddFile(path) }
ConsumerAdd ==
    /\ cpc = "got"
    /\ IF Unseen(cur, seen)
         THEN /\ seen' = seen \cup {cur}
              /\ ix' = AddFile(ix, cur)
              /\ Logged("AddFile", cur)
         ELSE UNCHANGED <<seen, ix, log>>
    /\ cur' = NoPath
    /\ cpc' = "select"
    /\ UNCHANGED <<resetFlag, args, disk, pc, ixfile, argIdx, queue, sent,
                   walked, exit>>
    /\ BKeep

\* doneChan <- true meets case <-doneChan: the consumer returns.
SendDone ==
    /\ pc = "walk" /\ queue = <<>> /\ argIdx > Len(args)
    /\ DoneReceivable
    /\ cpc' = "exited"
    /\ pc' = "flush"
    /\ UNCHANGED <<resetFlag, args, disk, ixfile, ix, argIdx, queue, cur, seen,
                   sent, walked, log, exit>>
    /\ BKeep

\* ix.Flush(): the writer's file is finalized.  With -reset main is done.
FlushIx ==
    /\ pc = "flush"
    /\ disk' = [disk EXCEPT ![ixfile] = Flush(ix)]
    /\ Logged("Flush", ixfile)
    /\ IF resetFlag THEN pc' = "done" /\ Stop(0)
                    ELSE pc' = "merge" /\ UNCHANGED exit
    /\ UNCHANGED <<resetFlag, args, ixfile, ix, argIdx, queue, cpc, cur, seen,
                   sent, walked>>
    /\ BKeep

\* index.Merge(file+"~", master, file); index.Open is fatal on a source that
\* is no index.
MergeIx ==
    /\ pc = "merge"
    /\ IF IsIndex(disk[Master]) /\ IsIndex(disk[ixfile])
         THEN /\ disk' = [disk EXCEPT ![Tilde(ixfile)] = Merge(disk[Master], disk[ixfile])]
              /\ Logged("Merge", Tilde(ixfile))
              /\ pc' = "rmfile"
              /\ UNCHANGED exit
         ELSE /\ pc' = "fatal" /\ Stop(1)
              /\ UNCHANGED <<disk, log>>
    /\ UNCHANGED <<resetFlag, args, ixfile, ix, argIdx, queue, cpc, cur, seen,
                   sent, walked>>
    /\ BKeep

\* The mutant of RemoveScratch: the writer's file left in place.
RemoveScratchSkipped ==
    /\ pc = "rmfile"
    /\ pc' = IF rev = 2 THEN "rmmaster" ELSE "rename"
    /\ UNCHANGED <<resetFlag, args, disk, ixfile, ix, argIdx, queue, cpc, cur,
                   seen, sent, walked, log, exit>>
    /\ BKeep

\* os.Remove(file)
RemoveScratch ==
    /\ pc = "rmfile"
    /\ disk' = [disk EXCEPT ![ixfile] = NoFile]
    /\ Logged("Remove", ixfile)
    /\ pc' = IF rev = 2 THEN "rmmaster" ELSE "rename"
    /\ UNCHANGED <<resetFlag, args, ixfile, ix, argIdx, queue, cpc, cur, seen,
                   sent, walked, exit>>
    /\ BKeep

\* os.Remove(master): the later main only.
RemoveMaster ==
    /\ pc = "rmmaster"
    /\ disk' = [disk EXCEPT ![Master] = NoFile]
    /\ Logged("Remove", Master)
    /\ pc' = "rename"
    /\ UNCHANGED <<resetFlag, args, ixfile, ix, argIdx, queue, cpc, cur, seen,
                   sent, walked, exit>>
    /\ BKeep

\* os.Rename(file+"~", master) succeeds.
RenameOk ==
    /\ pc = "rename"
    /\ disk' = [disk EXCEPT ![Master] = disk[Tilde(ixfile)],
                            ![Tilde(ixfile)] = NoFile]
    /\ Logged("Rename", Master)
    /\ pc' = "done" /\ Stop(0)
    /\ UNCHANGED <<resetFlag, args, ixfile, ix, argIdx, queue, cpc, cur, seen,
                   sent, walked>>
    /\ BKeep

\* os.Rename(file+"~", master) fails: the later main is fatal, the earlier
\* one ignores the error.
RenameFails ==
    /\ pc = "rename"
    /\ Logged("RenameFailed", Master)
    /\ IF rev = 2 THEN pc' = "fatal" /\ Stop(1)
                  ELSE pc' = "done" /\ Stop(0)
    /\ UNCHANGED <<resetFlag, args, disk, ixfile, ix, argIdx, queue, cpc, cur,
                   seen, sent, walked>>
    /\ BKeep

\* The builder started once more over the unchanged tree after a run that
\* succeeded, -reset not given: with the first run's arguments again, or with
\* none.  The process starts afresh; only the disk carries over.
RunAgain(how) ==
    /\ pc = "done" /\ exit = 0 /\ run < MaxRuns
    /\ ~listFlag /\ ~cmd.reset
    /\ \A i \in 1..Len(log) : log[i][1] # "RenameFailed"
    /\ run' = run + 1
    /\ cmd' = [cmd EXCEPT !.again = how]
    /\ args' = IF how = "same" THEN cmd.args ELSE <<>>
    /\ resetFlag' = FALSE
    /\ initMaster' = disk[Master]
    /\ pc' = "start" /\ exit' = Running
    /\ ixfile' = "" /\ ix' = NoWriter /\ argIdx' = 1
    /\ queue' = <<>> /\ cpc' = "idle" /\ cur' = NoPath
    /\ seen' = {} /\ sent' = <<>> /\ walked' = <<>>
    /\ log' = <<>> /\ out' = <<>>
    /\ UNCHANGED <<rev, listFlag, noFollow, disk, svars, ovars>>

Next ==
    \/ ListIndex
    \/ ResetIndex
    \/ PrepareFatal
    \/ PrepareArgs
    \/ StatMaster
    \/ CreateIx
    \/ WalkRoot
    \/ SendPath
    \/ ConsumerAdd
    \/ SendDone
    \/ FlushIx
    \/ MergeIx
    \/ RemoveScratch
    \/ RemoveMaster
    \/ RenameOk
    \/ RenameFails
    \/ RunAgain("same")
    \/ RunAgain("none")

Spec == Init /\ [][Next]_vars

\* ------------------------------------------------------------ the builder's claims

Has(op) == \E i \in 1..Len(log) : log[i][1] = op
IsAddFile(e) == e[1] = "AddFile"
\* The paths AddFile was called with, in call order.
AddFileCalls ==
    LET calls == SelectSeq(log, IsAddFile)
    IN [i \in 1..Len(calls) |-> calls[i][2]]
FirstIndex(op) == CHOOSE i \in 1..Len(log) : log[i][1] = op /\ \A j \in 1..(i - 1) : log[j][1] # op
\* A run of "cindex -reset" with no path, whose purpose is to remove the index.
DeleteRun == ixfile = "" /\ ~listFlag /\ resetFlag /\ args = <<>>
\* The writer runs in merge mode: -reset not given and a live index found.
MergeMode == ixfile = Tilde(Master)

\* C1 (as claimed): whenever a finalized index was at the live path before an
\* indexing run, the live path holds a complete finalized index in every
\* state of the run, the previous one or the new one.
C1_LiveIndexNeverCorrupt ==
    (IsIndex(initMaster) /\ ~DeleteRun) =>
        /\ IsIndex(disk[Master])
        /\ disk[Master] = initMaster \/ Has("Flush")

\* C1: the states that break it: the live path absent between os.Remove and
\* os.Rename, or partially written under -reset.
C1_LiveIndexLost ==
    /\ IsIndex(initMaster) /\ ~DeleteRun
    /\ MergeMode /\ rev = 2 /\ pc = "rename" /\ disk[Master] = NoFile

C3_RenameFailureKeepsMaster ==
    (rev = 2 /\ Has("RenameFailed")) => (pc = "fatal" /\ disk[Master] = initMaster)

\* C4: AddFile is called at most once per distinct path.
C4_AddFileOncePerPath ==
    \A i, j \in 1..Len(AddFileCalls) :
        AddFileCalls[i] = AddFileCalls[j] => i = j

\* C4, witness: the claim's case has happened.
C4_Witness ==
    /\ cpc = "exited"
    /\ \E i, j \in 1..Len(sent) : i # j /\ sent[i] = sent[j]

\* C5: when the consumer has taken the done signal every path sent has had
\* its AddFile call completed, and no AddFile call runs with or after Flush.
C5_DrainedBeforeDone ==
    /\ cpc = "exited" => (cur = NoPath /\ Range(sent) = Range(AddFileCalls))
    /\ pc \notin {"start", "stat", "create", "walk"} /\ Has("Create") => cpc = "exited"
    /\ Has("Flush") =>
          \A i \in 1..Len(log) : log[i][1] = "AddFile" => i < FirstIndex("Flush")

\* C5, witness: the claim's case has happened.
C5_Witness == Has("Flush") /\ Cardinality(Range(sent)) >= 2

RECURSIVE Walks(_)
\* What the walks of the roots send, one root after the other.
Walks(roots) ==
    IF roots = <<>> THEN <<>>
    ELSE walk(Head(roots), <<>>, noFollow) \o Walks(Tail(roots))

\* C6: the AddFile calls are the paths sent with the repeats removed, in
\* order; the roots are walked in ascending order; AddPaths is called once,
\* before the first AddFile.
C6_DeliveryOrder ==
    /\ AddFileCalls = Dedup(IF cpc = "got" THEN Front(sent) ELSE sent)
    /\ sent \o queue = Walks(walked)
    /\ IsSorted(walked)
    /\ pc \notin {"start", "stat", "create"} /\ Has("Create") =>
          walked = SubSeq(args, 1, Len(walked))
    /\ pc \notin {"start", "stat", "create", "walk"} /\ Has("Create") =>
          (walked = args /\ queue = <<>>)
    /\ Has("AddFile") =>
          /\ Cardinality({i \in 1..Len(log) : log[i][1] = "AddPaths"}) = 1
          /\ FirstIndex("AddPaths") < FirstIndex("AddFile")

\* C6, witness: the claim's case has happened.
C6_Witness ==
    /\ cpc = "exited"
    /\ Len(walked) = 2 /\ walked[1] # walked[2]
    /\ Len(AddFileCalls) < Len(sent)
    /\ Len(AddFileCalls) > 2

\* Whether AddFile gives the path a file id.
Indexable(name) ==
    LET f == FileAt(name)
    IN f # NoPath /\ f # <<>> /\ Tree[f].kind = "file" /\ Tree[f].text

Content(name) ==
    LET f == FileAt(name)
    IN IF f = NoPath \/ f = <<>> \/ ~Exists(f) THEN {}
       ELSE Tree[f].trig

Readable(name) ==
    LET f == FileAt(name)
    IN f # NoPath /\ f # <<>> /\ Tree[f].kind = "file"

\* The lines of the file that match the pattern.
MatchingLines(name, pat) ==
    IF Readable(name) /\ pat.trig \subseteq Content(name) /\ Tree[FileAt(name)].text
      THEN pat.lines ELSE 0

\* ix.PostingQuery(q): the ids of the files holding every required trigram,
\* ascending; every file id for the query ALL.
PostingQuery(index, trig) ==
    SortedIds({id \in 0..(Len(index.names) - 1) :
                  \A t \in trig : id \in Range(index.post[t])})

\* fre.MatchString(name): the model's -f expression selects the names under /a.
FreMatch(name) == Head(name) = 1

RECURSIVE FilterNames(_, _)
\* The candidates whose name the -f expression matches, order kept.
FilterNames(index, ids) ==
    IF ids = <<>> THEN <<>>
    ELSE IF FreMatch(index.names[Head(ids) + 1])
      THEN <<Head(ids)>> \o FilterNames(index, Tail(ids))
      ELSE FilterNames(index, Tail(ids))

\* g.Limit(n)
Limit(n) == [limit |-> n, limited |-> n > 0, Done |-> FALSE, Match |-> FALSE]

RECURSIVE GrepLines(_, _)
\* g.File over n matching lines: each one is reported and, under a cap,
\* counted down; at zero the driver sets Done and leaves the file.
GrepLines(gs, n) ==
    IF n = 0 THEN gs
    ELSE LET hit == [gs EXCEPT !.Match = TRUE,
                               !.limit = IF gs.limited THEN gs.limit - 1 ELSE gs.limit]
         IN IF hit.limited /\ hit.limit = 0
              THEN [hit EXCEPT !.Done = TRUE]
              ELSE GrepLines(hit, n - 1)

\* The mutant of Break: the done flag not inspected.
BreakNever(gs) == FALSE

\* if g.Done { break }
Break(gs) == gs.Done

\* The mutant of ExitStatus: the test for matches inverted.
ExitStatusInverted(matches) == IF matches THEN 1 ELSE 0

\* main: if !matches { os.Exit(1) }; os.Exit(0)
ExitStatus(matches) == IF ~matches THEN 1 ELSE 0

Patterns ==
    {Pattern(ok, trig, lines) :
        ok \in BOOLEAN, trig \in {{}, {"hel"}, {"hel", "elp"}}, lines \in 0..MaxCount}

SInit ==
    /\ rev = 2
    /\ listFlag = FALSE
    /\ resetFlag = FALSE
    /\ noFollow = FALSE
    /\ args = <<>>
    /\ initMaster \in MasterChoices \cup {IndexOf(<<<<1>>, <<2>>>>), Partial}
    /\ disk = [f \in Files |-> IF f = Master THEN initMaster ELSE NoFile]
    /\ pc = "idle"
    /\ ixfile = ""
    /\ ix = NoWriter
    /\ argIdx = 1
    /\ queue = <<>>
    /\ cpc = "idle"
    /\ cur = NoPath
    /\ seen = {}
    /\ sent = <<>>
    /\ walked = <<>>
    /\ log = <<>>
    /\ out = <<>>
    /\ cmd = [args |-> args, reset |-> resetFlag, again |-> "first"]
    /\ run = 1
    /\ exit = Running
    /\ spc = "start"
    /\ sin \in {Command(nargs, badFlag, pat, fre, brute, m) :
                  nargs \in 0..2, badFlag \in BOOLEAN, pat \in Patterns,
                  fre \in {"none", "ok", "bad"}, brute \in BOOLEAN, m \in 0..MaxCount}
    /\ post = <<>>
    /\ fi = 0
    /\ g = NoGrep
    /\ fileCalls = <<>>
    /\ OIdle

\* flag.Parse and the argument count: usage() exits with status 2.
SParse ==
    /\ spc = "start"
    /\ IF sin.badFlag \/ sin.nargs # 1
         THEN spc' = "usage" /\ Stop(2)
         ELSE spc' = "compile" /\ UNCHANGED exit
    /\ UNCHANGED <<sin, post, fi, g, fileCalls, bvars, ovars>>

\* regexp.Compile of the pattern and of the -f expression: log.Fatal on an
\* error.
SCompile ==
    /\ spc = "compile"
    /\ IF ~sin.pat.ok \/ sin.fre = "bad"
         THEN spc' = "fatal" /\ Stop(1)
         ELSE spc' = "open" /\ UNCHANGED exit
    /\ UNCHANGED <<sin, post, fi, g, fileCalls, bvars, ovars>>

\* index.Open, the posting query, the -f filter and g.Limit.
SOpen ==
    /\ spc = "open"
    /\ IF ~IsIndex(disk[Master])
         THEN /\ spc' = "fatal" /\ Stop(1)
              /\ UNCHANGED <<post, g>>
         ELSE /\ LET found == PostingQuery(disk[Master],
                                           IF sin.brute THEN {} ELSE sin.pat.trig)
                 IN post' = IF sin.fre = "ok" THEN FilterNames(disk[Master], found)
                                              ELSE found
              /\ g' = Limit(sin.m)
              /\ spc' = "loop"
              /\ UNCHANGED exit
    /\ UNCHANGED <<sin, fi, fileCalls, bvars, ovars>>

\* One turn of "for _, fileid := range post": g.File(name), then the done
\* flag is looked at.
SFile ==
    /\ spc = "loop" /\ fi < Len(post)
    /\ LET fileid == post[fi + 1]
           name == disk[Master].names[fileid + 1]
           after == GrepLines(g, MatchingLines(name, sin.pat))
       IN /\ g' = after
          /\ fileCalls' = Append(fileCalls,
                                 [id |-> fileid, done |-> after.Done,
                                  lines |-> MatchingLines(name, sin.pat)])
          /\ fi' = fi + 1
          /\ spc' = IF Break(after) THEN "end" ELSE "loop"
    /\ UNCHANGED <<sin, post, exit, bvars, ovars>>

\* The loop is over: matches = g.Match, and main exits.
SExit ==
    /\ \/ spc = "end"
       \/ spc = "loop" /\ fi = Len(post)
    /\ spc' = "exited"
    /\ Stop(ExitStatus(g.Match))
    /\ UNCHANGED <<sin, post, fi, g, fileCalls, bvars, ovars>>

SNext == SParse \/ SCompile \/ SOpen \/ SFile \/ SExit

SearchSpec == SInit /\ [][SNext]_vars

\* ------------------------------------------------------------ the searcher's claims

\* C7: no file is passed to the driver after a file that set the done flag,
\* the loop is over once the flag is set, and the files are visited in the
\* ascending order the evaluator returned.
C7_StopsWhenDone ==
    /\ \A i \in 1..(Len(fileCalls) - 1) : ~fileCalls[i].done
    /\ g.Done => spc \in {"end", "exited"}
    /\ Len(fileCalls) = fi
    /\ \A i \in 1..Len(fileCalls) : fileCalls[i].id = post[i]
    /\ \A i \in 1..(Len(post) - 1) : post[i] < post[i + 1]
    /\ (spc = "exited" /\ ~g.Done) => fi = Len(post)

\* C7, witness: the claim's case has happened.
C7_Witness ==
    spc = "exited" /\ g.Done /\ Len(fileCalls) >= 2 /\ Len(fileCalls) < Len(post)

UsageError == sin.badFlag \/ sin.nargs # 1
\* A line was reported for one of the files processed.
FoundMatch == \E i \in 1..Len(fileCalls) : fileCalls[i].lines > 0

\* C8: the exit status is 0 exactly when a match was found, 1 when the
\* search ran and found none, 2 on a usage error.
C8_ExitStatus ==
    exit # Running =>
        /\ exit = 0 <=> FoundMatch
        /\ (spc = "exited" /\ ~FoundMatch) => exit = 1
        /\ UsageError => exit = 2

\* C8, witness: the claim's case has happened.
C8_Witness == spc = "exited" /\ exit = 0 /\ Len(fileCalls) >= 2 /\ fileCalls[1].lines = 0

\* C9 (as claimed): a pattern or -f expression that does not compile ends the
\* run with status 2, before the index is opened.
C9_MalformedPatternIsUsageError ==
    (exit # Running /\ ~UsageError /\ (~sin.pat.ok \/ sin.fre = "bad")) =>
        (exit = 2 /\ spc # "exited" /\ fileCalls = <<>>)

\* ------------------------------------------------------------ C11

\* The posting lists of an index with the file ids replaced by the names.
PostPairs(index) ==
    UNION {{<<t, index.names[id + 1]>> : id \in Range(index.post[t])} :
           t \in Trigrams}

\* Two indexes with the same roots, the same files and the same posting
\* lists, whatever the order of the files.
SameIndex(a, b) ==
    /\ Range(a.paths) = Range(b.paths)
    /\ Range(a.names) = Range(b.names)
    /\ PostPairs(a) = PostPairs(b)

NoRepeat(s) == Cardinality(Range(s)) = Len(s)

\* A later run over the unchanged tree has succeeded.
Reindexed ==
    run > 1 /\ pc = "done" /\ exit = 0 /\ Has("Flush") /\ ~Has("RenameFailed")

\* The roots the first run was given, as main walks them.
GivenRoots == {Abs(a) : a \in Range(cmd.args)} \ {<<>>}

\* What the index held before this run for the roots outside the first
\* run's arguments is what a walk of its roots finds now.
OtherRootsCurrent ==
    LET others == {n \in Range(initMaster.names) : ~Under(n, GivenRoots)}
        found == {n \in Range(Walks(initMaster.paths)) :
                    Indexable(n) /\ ~Under(n, GivenRoots)}
    IN /\ others = found
       /\ {e \in PostPairs(initMaster) : e[2] \in others} =
             UNION {{<<t, n>> : t \in Tree[FileAt(n)].trig} : n \in found}

\* C11 as the spec states it: a second run over the unchanged tree without
\* -reset, with the same path arguments or with none, leaves the same roots,
\* the same files and the same posting lists up to the numbering of the
\* files, and no root or file twice.
C11_ReindexIdempotent ==
    Reindexed =>
        /\ SameIndex(disk[Master], initMaster)
        /\ NoRepeat(disk[Master].paths)
        /\ NoRepeat(disk[Master].names)

\* C11, amended: with the same path arguments the second run changes
\* nothing; with no arguments it changes nothing when the files the index
\* held for its other roots are still what a walk of those roots finds.
C11_ReindexIdempotentWhenCurrent ==
    (Reindexed /\ (cmd.again = "same" \/ OtherRootsCurrent)) =>
        /\ SameIndex(disk[Master], initMaster)
        /\ NoRepeat(disk[Master].paths)
        /\ NoRepeat(disk[Master].names)

\* C11, witness: a second run with no arguments has rebuilt an index that
\* holds roots beyond the first run's arguments, and renumbered its files.
C11_Witness ==
    /\ Reindexed /\ cmd.again = "none" /\ OtherRootsCurrent
    /\ cmd.args # <<>>
    /\ ~(Range(initMaster.paths) \subseteq GivenRoots)
    /\ Len(disk[Master].names) > 2
    /\ disk[Master].names # initMaster.names
    /\ PostPairs(disk[Master]) # {}

\* ------------------------------------------------------------ C12

\* The builder under fair scheduling: a goroutine that can take a step
\* takes one.  The walker produces the paths of a root, a send blocked on the
\* unbuffered channel is taken up once the consumer selects, AddFile
\* returns, the done signal is sent once the walks are over, and main goes
\* on to Flush.
FairSpec ==
    /\ Init /\ [][Next]_vars
    /\ WF_vars(WalkRoot)
    /\ WF_vars(SendPath)
    /\ WF_vars(ConsumerAdd)
    /\ WF_vars(SendDone)
    /\ WF_vars(FlushIx)

\* C12: once the consumer goroutine is started, every path the walks of the
\* roots send is received, the done signal is received, the consumer exits
\* and main calls Flush.
C12_HandoffCompletes ==
    (pc = "walk") ~>
        (/\ Has("Flush") /\ cpc = "exited"
         /\ queue = <<>> /\ cur = NoPath
         /\ sent = Walks(args))

\* C12, witness: a run that handed over several paths of two roots has
\* reached Flush with the consumer gone.
C12_Witness ==
    /\ Has("Flush") /\ cpc = "exited"
    /\ Len(walked) = 2 /\ Len(sent) > 3
    /\ sent = Walks(args)

\* ------------------------------------------------------------ the walker, step by step

\* A call of walk in progress: its arguments and the paths filepath.Walk has
\* still to hand to the walk function, in the order it will.
Frame(arg, symlinkFrom, todo) == [arg |-> arg, from |-> symlinkFrom, todo |-> todo]

\* walk(arg, symlinkFrom, ...) is entered: filepath.Walk starts at arg, and
\* does nothing more than log when arg cannot be stat'ed.
Enter(arg, symlinkFrom) ==
    IF Exists(arg) THEN <<Frame(arg, symlinkFrom, <<arg>>)>> ELSE <<>>

\* The builder and the searcher when neither runs.
BIdle ==
    /\ rev = 2
    /\ listFlag = FALSE
    /\ resetFlag = FALSE
    /\ args = <<>>
    /\ initMaster = NoFile
    /\ disk = [f \in Files |-> NoFile]
    /\ pc = "idle"
    /\ ixfile = ""
    /\ ix = NoWriter
    /\ argIdx = 1
    /\ queue = <<>>
    /\ cpc = "idle"
    /\ cur = NoPath
    /\ seen = {}
    /\ sent = <<>>
    /\ walked = <<>>
    /\ log = <<>>
    /\ out = <<>>
    /\ cmd = [args |-> <<>>, reset |-> FALSE, again |-> "first"]
    /\ run = 1
    /\ exit = Running

\* walk called on any path of the tree, or on one that does not exist.
WalkInit ==
    /\ BIdle /\ SIdle
    /\ noFollow \in BOOLEAN
    /\ \E root \in DOMAIN Tree \cup {<<3>>} :
          wk = [root |-> root, stack |-> Enter(root, <<>>), sent |-> <<>>]
    /\ mm = NoMmap

\* The innermost call and the path its walk function is handed next.
Top == wk.stack[Len(wk.stack)]
Visiting == Head(Top.todo)
Visits == wk.stack # <<>> /\ Top.todo # <<>>
\* The stack with the innermost call's current path dealt with.
Stepped == [wk.stack EXCEPT ![Len(wk.stack)].todo = Tail(Top.todo)]
WKeep == UNCHANGED <<bvars, svars, exit, mm>>

\* The walk function returns without sending: an excluded file or
\* directory, a symlink under -no-follow-symlinks, a symlink that cannot be
\* resolved, or a path that is neither regular nor a directory.
WalkSkip ==
    /\ Visits
    /\ LET info == Tree[Visiting]
       IN \/ info.excl
          \/ info.kind = "other"
          \/ /\ info.kind = "link"
             /\ \/ noFollow
                \/ EvalSymlinks(Shown(Visiting, Top.arg, Top.from), MaxIter) = NoPath
    /\ wk' = [wk EXCEPT !.stack = Stepped]
    /\ WKeep

\* A symlink is resolved and walk calls itself on the target, the symlink's
\* name standing for it.
WalkLink ==
    /\ Visits
    /\ Tree[Visiting].kind = "link" /\ ~Tree[Visiting].excl /\ ~noFollow
    /\ LET symlinkAs == Shown(Visiting, Top.arg, Top.from)
           p == EvalSymlinks(symlinkAs, MaxIter)
       IN /\ p # NoPath
          /\ wk' = [wk EXCEPT !.stack = Stepped \o Enter(p, symlinkAs)]
    /\ WKeep

\* out <- path, or the path under the symlink's name.
WalkSend ==
    /\ Visits
    /\ Tree[Visiting].kind = "file" /\ ~Tree[Visiting].excl
    /\ wk' = [wk EXCEPT !.stack = Stepped,
                        !.sent = Append(@, Shown(Visiting, Top.arg, Top.from))]
    /\ WKeep

\* A directory: filepath.Walk goes on to its entries, in lexical order.
WalkDir ==
    /\ Visits
    /\ Tree[Visiting].kind = "dir" /\ ~Tree[Visiting].excl
    /\ LET names == ReadDirNames(Visiting)
           entries == [i \in 1..Len(names) |-> Visiting \o names[i]]
       IN wk' = [wk EXCEPT !.stack =
                    [wk.stack EXCEPT ![Len(wk.stack)].todo = entries \o Tail(Top.todo)]]
    /\ WKeep

\* filepath.Walk has nothing left: the call of walk returns.
WalkReturn ==
    /\ wk.stack # <<>> /\ Top.todo = <<>>
    /\ wk' = [wk EXCEPT !.stack = Front(wk.stack)]
    /\ WKeep

WalkNext == WalkSkip \/ WalkLink \/ WalkSend \/ WalkDir \/ WalkReturn

\* The walker runs on: a call that can take a step takes it.
WalkSpec == WalkInit /\ [][WalkNext]_vars /\ WF_vars(WalkNext)

\* ------------------------------------------------------------ C13

\* C13: with symlinks followed or not, on every root of the tree, the one
\* under a symlink to its own parent included, the calls of walk never nest
\* deeper than the resolver's limit allows, every call returns, and what was
\* sent by then is what walk sends.
C13_WalkTerminates ==
    /\ [](Len(wk.stack) <= MaxIter + 1)
    /\ <>[](wk.stack = <<>>)
    /\ [](wk.stack = <<>> => wk.sent = walk(wk.root, <<>>, noFollow))

\* C13, witness: the walk of the directory that holds a symlink to itself
\* has gone through the symlink more than once and has returned.
C13_Witness ==
    /\ wk.root = <<4>> /\ ~noFollow
    /\ wk.stack = <<>>
    /\ \E i \in 1..Len(wk.sent) : Len(wk.sent[i]) > 3

\* ------------------------------------------------------------ mmapFile

\* size+4095 and (n+4095)&^4095: one less than the page size.
PageMask == 4095
\* The length of the array type the Windows view is cast to: 1 << 30.
ArrayLen == 1073741824
\* The largest and the smallest value of a 32-bit int.
MaxInt32 == (ArrayLen - 1) + ArrayLen
MinInt32 == (0 - MaxInt32) - 1

\* File sizes around zero, the page size, 1 << 30 and the end of the 32-bit
\* range.
Sizes ==
    {0, 1, PageMask, PageMask + 1, PageMask + 2,
     ArrayLen - PageMask, ArrayLen - 1, ArrayLen, ArrayLen + 1,
     ArrayLen + PageMask + 1,
     MaxInt32 - PageMask - 1, MaxInt32 - PageMask, MaxInt32 - PageMask + 1,
     MaxInt32 - 1, MaxInt32}

\* int(size+4095) where int has the given width: the sum itself, or the sum
\* less 2^32 when a 32-bit int wraps.
IntOfSum(size, bits) ==
    IF bits = 64 \/ size <= MaxInt32 - PageMask THEN size + PageMask
    ELSE ((size - (MaxInt32 - PageMask)) + MinInt32) - 1

\* int64(int(size+4095)) != size+4095
TooLarge(size, bits) ==
    LET v == IntOfSum(size, bits)
    IN IF v < PageMask THEN TRUE ELSE v - PageMask # size

\* (n+4095)&^4095
RoundUp(n) == ((n + PageMask) \div (PageMask + 1)) * (PageMask + 1)

\* mmapFile is called on an open file of some size, on either system, built
\* with a 32-bit or a 64-bit int.  The model's integers end at 2^31 - 1, so
\* the 64-bit build is given the sizes whose size+4095 stays within them.
MmapInit ==
    /\ BIdle /\ SIdle
    /\ noFollow = FALSE
    /\ wk = NoWalk
    /\ \E os \in {"windows", "unix"}, bits \in {32, 64}, size \in Sizes :
          /\ bits = 64 => size <= MaxInt32 - PageMask
          /\ mm = [os |-> os, bits |-> bits, size |-> size, at |-> "stat",
                   len |-> 0, mapped |-> 0]

MKeep == UNCHANGED <<bvars, svars, exit, wk>>

\* The size check: log.Fatalf("%s: too large for mmap") when it fails.
MmapCheck ==
    /\ mm.at = "stat"
    /\ mm' = [mm EXCEPT !.at = IF TooLarge(mm.size, mm.bits) THEN "fatal"
                                ELSE "checked"]
    /\ MKeep

\* An empty file: mmapData{f, nil, 0}, nothing mapped.
MmapEmpty ==
    /\ mm.at = "checked" /\ mm.size = 0
    /\ mm' = [mm EXCEPT !.at = "view", !.len = 0]
    /\ MKeep

\* Windows: the whole file is mapped, the address is cast to a pointer to an
\* array of 1 << 30 bytes, and data[:size] is taken, which panics when size
\* is beyond the array.
MmapWindows ==
    /\ mm.at = "checked" /\ mm.size # 0 /\ mm.os = "windows"
    /\ IF mm.size > ArrayLen
         THEN mm' = [mm EXCEPT !.at = "panic", !.mapped = mm.size]
         ELSE mm' = [mm EXCEPT !.at = "view", !.mapped = mm.size,
                               !.len = mm.size]
    /\ MKeep

\* Unix: n rounded up to whole pages is mapped and data[:n] is taken.
MmapUnix ==
    /\ mm.at = "checked" /\ mm.size # 0 /\ mm.os = "unix"
    /\ mm' = [mm EXCEPT !.at = "view", !.mapped = RoundUp(mm.size),
                        !.len = mm.size]
    /\ MKeep

MmapNext == MmapCheck \/ MmapEmpty \/ MmapWindows \/ MmapUnix

MmapSpec == MmapInit /\ [][MmapNext]_vars

\* ------------------------------------------------------------ C14

\* size+4095 is representable as an int of the given width.
Representable(size, bits) == bits = 64 \/ size <= MaxInt32 - PageMask

\* C14 as the spec states it: once mmapFile is over, a size that fails the
\* check has ended in the fatal error; every other size has a view of
\* exactly size bytes, and size 0 has one with nothing mapped.
C14_ViewLengthIsFileSize ==
    mm.at \in {"fatal", "panic", "view"} =>
        IF ~Representable(mm.size, mm.bits) THEN mm.at = "fatal"
        ELSE /\ mm.at = "view"
             /\ mm.len = mm.size
             /\ mm.size = 0 => mm.mapped = 0

\* C14, the failure: on Windows a file of more than 1 << 30 bytes that
\* passed the size check is mapped and then the slice expression panics.
C14_WindowsPanics ==
    /\ mm.at = "panic" /\ mm.os = "windows"
    /\ Representable(mm.size, mm.bits)
    /\ mm.size = ArrayLen + 1

\* What mmapFile does deliver: the claim on Unix, and on Windows up to
\* 1 << 30 bytes.
C14_ViewWithinArray ==
    (mm.at \in {"fatal", "panic", "view"}
       /\ (mm.os = "unix" \/ mm.size <= ArrayLen)) =>
        IF ~Representable(mm.size, mm.bits) THEN mm.at = "fatal"
        ELSE /\ mm.at = "view"
             /\ mm.len = mm.size
             /\ mm.mapped >= mm.size
             /\ mm.size = 0 => mm.mapped = 0

====
